---------------------------- MODULE Spec2Model ----------------------------
(***************************************************************************)
(* Model of mtk-flashtool-py (src/main.py, src/chip_mapping.py): the host  *)
(* side of the MediaTek BootROM/Preloader bootstrap over a serial port.    *)
(*                                                                         *)
(* The host program is one sequential process (pc is its position in       *)
(* main.py).  The device is the environment: every byte the host writes    *)
(* makes the device queue a reply burst (dev), and the device moves the    *)
(* queued bytes into the host's input buffer (rx) one at a time, at any    *)
(* moment.  s.in_waiting is Len(rx); s.read(1) blocks until rx is not      *)
(* empty.                                                                  *)
(*                                                                         *)
(* Bytes are the integers 0..255.  read_serial returns each byte as a      *)
(* two-digit hex string and the callers join and compare those strings;    *)
(* two such strings are equal exactly when the byte sequences are equal,   *)
(* so the model compares the byte sequences.                               *)
(*                                                                         *)
(* Python integers are unbounded, TLC's are 32 bits wide: an integer       *)
(* decoded from the wire is kept as its base-256 digits, most significant  *)
(* first and without leading zeros (<<>> is 0).  All shifts and masks of   *)
(* the program are by whole bytes.                                         *)
(*                                                                         *)
(* Spec is __main__ as it stands: try_handshake, check_preloader,          *)
(* get_chip_id, load_da.  SpecRerun lets a caller run get_chip_id again.   *)
(* SpecFlash is __main__ with the calls of lines 264-266 made as well:     *)
(* send_auth_file, qualify_host, send_da.  In these three functions a      *)
(* frame is written in one step (the host reads nothing between its        *)
(* bytes) and read_serial(s, n) takes its n bytes one at a time.           *)
(***************************************************************************)
EXTENDS Integers, Sequences, FiniteSets, TLC

(***************************************************************************)
(* Wire constants of main.py                                               *)
(***************************************************************************)
\* try_handshake: data = 'a00a5005'
HandshakeData == <<160, 10, 80, 5>>
\* try_handshake: handshake_magic = '5ff5affa'
HandshakeMagic == <<95, 245, 175, 250>>
\* try_handshake: preloader_greet = b'READY'.hex()
PreloaderGreet == <<82, 69, 65, 68, 89>>
\* check_preloader: data = 'fe'
CmdPreloaderVer == 254
\* get_chip_id: hw_code_cmd = 'fd', hw_sub_cmd = 'fc'
CmdHwCode == 253
CmdHwSub == 252
\* mutant: two more polls
PollLimitLonger == 15 + 2
\* read_resp: if ctr == 15
PollLimit == 15
\* load_da: pos = 0x68
DaStart == 104
\* load_da: f.seek(f.tell() + 220 - 4)
DaRecordLen == 220
\* load_da: f.read(4), unpack("<I", ...)
DaWordLen == 4
\* send_auth_file: the command byte, the length frame, the status of success
CmdSendAuth == 226
AuthLenFrame == <<0, 0, 8, 208>>
AuthStatusOk == <<0, 0>>
\* qualify_host: the command byte, the length frame, the challenge and its repeats
CmdQualify == 227
QualifyFrame == <<0, 0, 1, 0>>
QualifyPreLen == 2 + 4
QualifyIpLen == 16
QualifyRepeat == 16
\* send_da: the command byte and the three frames that follow it
CmdSendDa == 215
SendDaFrames == << <<0, 32, 0, 0>>, <<0, 3, 97, 168>>, <<0, 0, 1, 0>> >>
\* the size of one slice of the DA body
ChunkLen == 8192

(***************************************************************************)
(* Bounds of the model                                                     *)
(***************************************************************************)
\* DA images carry 0..MaxRecords chip records
MaxRecords == 3
\* a caller identifies the chip at most MaxIdentify times on one session
MaxIdentify == 2
\* how many times in a row the greeting device answers A0 with "READY"
MaxGreets == 8
\* length of the auth file auth_sv5.auth
MaxAuthLen == 2

(***************************************************************************)
(* Unbounded naturals as base-256 digit sequences                          *)
(***************************************************************************)
RECURSIVE Strip(_)
Strip(ds) == IF ds # <<>> /\ Head(ds) = 0 THEN Strip(Tail(ds)) ELSE ds

Reverse(s) == [i \in 1..Len(s) |-> s[Len(s) + 1 - i]]

\* int.from_bytes(bs, "big")
FromBytesBig(bs) == Strip(bs)

\* unpack("<I", bs)[0]
UnpackLE32(bs) == Strip(Reverse(bs))

\* n >> bits, bits a multiple of 8
ShiftRight(n, bits) ==
    IF Len(n) * 8 <= bits THEN <<>> ELSE SubSeq(n, 1, Len(n) - (bits \div 8))

\* n & (2^bits - 1), bits a multiple of 8
MaskLow(n, bits) ==
    IF Len(n) * 8 <= bits THEN n
    ELSE Strip(SubSeq(n, Len(n) - (bits \div 8) + 1, Len(n)))

\* the integer a digit sequence stands for (used where it fits TLC's integers)
RECURSIVE ToInt(_)
ToInt(n) == IF n = <<>> THEN 0 ELSE ToInt(SubSeq(n, 1, Len(n) - 1)) * 256 + n[Len(n)]

\* digits of a small integer
\* the concatenation of a sequence of byte strings
RECURSIVE Flatten(_)
Flatten(ss) ==
    IF ss = <<>> THEN <<>>
    ELSE IF Len(ss) = 1 THEN ss[1]
    ELSE LET h == Len(ss) \div 2
         IN  Flatten(SubSeq(ss, 1, h)) \o Flatten(SubSeq(ss, h + 1, Len(ss)))

RECURSIVE Digits(_)
Digits(k) == IF k = 0 THEN <<>> ELSE Append(Digits(k \div 256), k % 256)


(***************************************************************************)
(* chip_mapping.py: the static chip table.  A Python dict entry has no     *)
(* hw_sub_code / hw_version / sw_version key until get_chip_id stores one: *)
(* Absent marks a key that is not there.  The table is keyed by 0x766.     *)
(***************************************************************************)
Absent == <<-1>>

ChipKey766 == Digits(1894)

StaticChipMap ==
    [k \in {ChipKey766} |->
        [id |-> 1894, name |-> "MT6765", hw_code |-> 26469,
         da_load_addr |-> 2097152, da_sig_len |-> 256,
         hw_sub_code |-> Absent, hw_version |-> Absent, sw_version |-> Absent]]

(***************************************************************************)
(* The device.  replies[k] is the burst the device queues when the host    *)
(* writes its k-th byte (nothing beyond the end of the script); greet is   *)
(* queued before the host writes anything.                                 *)
(***************************************************************************)
RepMagic == << <<95>>, <<245>>, <<175>>, <<250>> >>
RepEcho == << <<160>>, <<10>>, <<80>>, <<5>> >>
RepHwCode766 == <<253, 7, 102, 0, 0>>
RepHwSub8 == <<252, 0, 1, 0, 2, 0, 0, 0, 3>>

Devices == <<
    \* 1: BootROM, MT6765, 8-byte sub word
    [greet |-> <<>>,
     replies |-> RepMagic \o << <<254>>, RepHwCode766, RepHwSub8,
                                RepHwCode766, RepHwSub8 >>],
    \* 2: Preloader that greets and ignores the first A0
    [greet |-> PreloaderGreet,
     replies |-> << <<>> >> \o RepMagic
                 \o << <<3>>, RepHwCode766, <<252, 138, 0, 202, 0, 255, 255, 255, 255>> >>],
    \* 3: Preloader that greets and answers the first A0 at once
    [greet |-> PreloaderGreet,
     replies |-> RepMagic \o << <<3>>, RepHwCode766, RepHwSub8 >>],
    \* 4: device that echoes the handshake (already handshaked), 4-byte sub word
    [greet |-> <<>>,
     replies |-> RepEcho \o << <<254>>, RepHwCode766, <<252, 0, 0, 0, 3>> >>],
    \* 5: wrong third reply byte
    [greet |-> <<>>,
     replies |-> << <<95>>, <<245>>, <<0>>, <<250>> >>],
    \* 6: chip that is not in the table
    [greet |-> <<>>,
     replies |-> RepMagic \o << <<254>>, <<253, 6, 153, 0, 0>>, RepHwSub8 >>],
    \* 7: FD is not echoed
    [greet |-> <<>>,
     replies |-> RepMagic \o << <<254>>, <<0, 7, 102, 0, 0>>, RepHwSub8 >>],
    \* 8: FD is echoed and never answered
    [greet |-> <<>>,
     replies |-> RepMagic \o << <<254>>, <<253>>, RepHwSub8 >>],
    \* 9: FC is echoed and never answered
    [greet |-> <<>>,
     replies |-> RepMagic \o << <<254>>, RepHwCode766, <<252>> >>],
    \* 10: FC is not echoed
    [greet |-> <<>>,
     replies |-> RepMagic \o << <<254>>, RepHwCode766, <<1, 0, 0>> >>],
    \* 11: 9-byte sub word
    [greet |-> <<>>,
     replies |-> RepMagic \o << <<254>>, RepHwCode766,
                                <<252, 1, 0, 1, 0, 2, 128, 0, 0, 3>> >>],
    \* 12: Preloader that greets again when it sees the first A0
    [greet |-> PreloaderGreet,
     replies |-> << PreloaderGreet, <<>> >> \o RepMagic
                 \o << <<3>>, RepHwCode766, RepHwSub8 >>],
    \* 13: reply magic sent in two bursts of two bytes
    [greet |-> <<>>,
     replies |-> << <<95, 245>>, <<>>, <<175, 250>>, <<>>,
                    <<254>>, RepHwCode766, RepHwSub8 >>],
    \* 14: answers A0 with "READY", every time the host writes A0
    [greet |-> <<>>,
     replies |-> [k \in 1..MaxGreets |-> PreloaderGreet]]
>>

\* one burst per byte of bs, each the byte itself
Echoes(bs) == [i \in 1..Len(bs) |-> <<bs[i]>>]
\* n bytes that the device takes without answering
Quiet(n) == [i \in 1..n |-> <<>>]
\* the bursts reps, the last of them followed by the bytes more
WithTail(reps, more) ==
    [i \in 1..Len(reps) |-> IF i = Len(reps) THEN reps[i] \o more ELSE reps[i]]

\* a session that reaches the end of load_da on a quiet line
RepSession == RepMagic \o << <<254>>, RepHwCode766, <<252, 0, 0, 0, 3>> >>
\* the device's side of send_auth_file: echo of E2, echo of the length and
\* two bytes, then, once the whole file has arrived, two bytes and the status
RepAuth(e2, len, status) ==
    << <<e2>> >> \o WithTail(Echoes(len), <<0, 0>>)
    \o Quiet(MaxAuthLen - 1) \o << <<0, 0>> \o status >>
\* the 2 + 4 bytes and the 16-byte challenge that follow the echo of E3
RepChallenge == <<0, 0, 0, 0, 0, 16>> \o [i \in 1..QualifyIpLen |-> 192 + i]
\* the device's side of qualify_host
RepQualify ==
    << <<CmdQualify>> \o RepChallenge >> \o WithTail(Echoes(QualifyFrame), <<0, 0>>)
    \o Quiet(QualifyIpLen * QualifyRepeat - 1) \o << <<0, 0>> >>
\* the device's side of send_da up to the DA body
RepSendDa(d7, f1, f2, f3) ==
    << <<d7>> >> \o Echoes(f1) \o Echoes(f2) \o WithTail(Echoes(f3), <<0, 0>>)
RepAuthOk == RepAuth(CmdSendAuth, AuthLenFrame, AuthStatusOk)
RepSendDaOk == RepSendDa(CmdSendDa, SendDaFrames[1], SendDaFrames[2], SendDaFrames[3])

\* devices for a session that goes on to send_auth_file, qualify_host, send_da
FlashDevices == <<
    \* 15: answers every step as expected
    [greet |-> <<>>, replies |-> RepSession \o RepAuthOk \o RepQualify \o RepSendDaOk],
    \* 16: as 15, a device that is never sent E3
    [greet |-> <<>>, replies |-> RepSession \o RepAuthOk \o RepSendDaOk],
    \* 17: E2 is not echoed
    [greet |-> <<>>, replies |-> RepSession \o << <<0>> >>],
    \* 18: the auth length is echoed wrongly
    [greet |-> <<>>, replies |-> RepSession \o << <<CmdSendAuth>> >> \o Echoes(<<0, 0, 8, 0>>)],
    \* 19: the auth file is refused
    [greet |-> <<>>,
     replies |-> RepSession \o RepAuth(CmdSendAuth, AuthLenFrame, <<0, 1>>)],
    \* 20: E3 is not echoed; the DA commands are answered
    [greet |-> <<>>, replies |-> RepSession \o RepAuthOk \o << <<0>> >> \o RepSendDaOk],
    \* 21: the qualify length is echoed wrongly; the DA commands are answered
    [greet |-> <<>>,
     replies |-> RepSession \o RepAuthOk \o << <<CmdQualify>> \o RepChallenge >>
                 \o Echoes(<<0, 0, 1, 1>>) \o RepSendDaOk],
    \* 22: D7 is not echoed
    [greet |-> <<>>,
     replies |-> RepSession \o RepAuthOk \o RepQualify
                 \o RepSendDa(0, SendDaFrames[1], SendDaFrames[2], SendDaFrames[3])],
    \* 23: the load address is echoed wrongly
    [greet |-> <<>>,
     replies |-> RepSession \o RepAuthOk \o RepQualify
                 \o RepSendDa(CmdSendDa, <<0, 32, 0, 1>>, SendDaFrames[2], SendDaFrames[3])],
    \* 24: the DA length is echoed wrongly
    [greet |-> <<>>,
     replies |-> RepSession \o RepAuthOk \o RepQualify
                 \o RepSendDa(CmdSendDa, SendDaFrames[1], <<0, 3, 97, 0>>, SendDaFrames[3])],
    \* 25: the signature length is echoed wrongly
    [greet |-> <<>>,
     replies |-> RepSession \o RepAuthOk \o RepQualify
                 \o RepSendDa(CmdSendDa, SendDaFrames[1], SendDaFrames[2], <<1, 0, 1, 0>>)],
    \* 26: wrong third reply byte of the handshake
    [greet |-> <<>>, replies |-> << <<95>>, <<245>>, <<0>>, <<250>> >>]
>>

AllDevices == Devices \o FlashDevices

\* the devices that are also tried with SKIP_SLA set
SkipSlaDevices == {Len(Devices) + 1, Len(Devices) + 2}

DeviceReply(d, k) ==
    IF k <= Len(AllDevices[d].replies) THEN AllDevices[d].replies[k] ELSE <<>>

(***************************************************************************)
(* The DA image file MTK_AllInOne_DA.bin: an image is its declared record  *)
(* count and its length in bytes; ImageByte gives the byte at an offset.   *)
(* Record r starts at 0x68 + 4 + r*220 with the little-endian word         *)
(* (hw_code << 16) | 0xDADA.                                               *)
(***************************************************************************)
ChipCodes == <<26469, 26465, 26472, 26481>>

RecordCode(r) == ChipCodes[(r % Len(ChipCodes)) + 1]

ImageByte(img, o) ==
    IF o < DaStart THEN (o * 7 + 3) % 256
    ELSE IF o < DaStart + DaWordLen
    THEN LET k == o - DaStart
         IN  IF k = 0 THEN img.count % 256 ELSE 0
    ELSE LET r == (o - DaStart - DaWordLen) \div DaRecordLen
             k == (o - DaStart - DaWordLen) % DaRecordLen
         IN  IF k < 2 THEN 218
             ELSE IF k = 2 THEN RecordCode(r) % 256
             ELSE IF k = 3 THEN RecordCode(r) \div 256
             ELSE (k + 3 * r) % 251

ImageLengths(n) ==
    LET full == DaStart + DaWordLen + n * DaRecordLen
    IN  IF n = 0 THEN {full, full - 2, DaStart - 54}
        ELSE {full, full - DaRecordLen + DaWordLen,
              full - DaRecordLen + DaWordLen - 1, full - DaRecordLen}

\* images of two whole slices, and of two slices and one byte
BigImages == {[count |-> 1, len |-> 2 * ChunkLen], [count |-> 1, len |-> 2 * ChunkLen + 1]}

DAImages ==
    UNION {{[count |-> n, len |-> l] : l \in ImageLengths(n)} : n \in 0..MaxRecords}
    \cup BigImages

NoImage == [count |-> 0, len |-> 0]

\* f.read(n) at offset pos: at most n bytes, fewer at the end of the file
FileRead(img, pos, n) ==
    LET avail == IF img.len - pos < 0 THEN 0
                 ELSE IF img.len - pos < n THEN img.len - pos ELSE n
    IN  [i \in 1..avail |-> ImageByte(img, pos + i - 1)]


(***************************************************************************)
(* State                                                                   *)
(***************************************************************************)
VARIABLES
    device,        \* index into Devices: the device on the port
    pc,            \* position of the host program
    exc,           \* "none", or the exception that ended the process
    tx,            \* every byte the host has written, in order
    rx,            \* the host's input buffer (s.in_waiting = Len(rx))
    dev,           \* bytes the device has queued and not yet sent
    \* try_handshake
    rdata, is_preloader, retry, hs_i, hs_result,
    \* check_preloader
    pl_ver,
    \* read_resp
    rr_cmd, rr_call, rr_echo, ctr, rr_ret, rr_slept, rr_clean,
    \* get_chip_id
    hw_code_resp, hw_sub_resp, chip_map, chip_config,
    gc_returned,   \* the descriptors get_chip_id has returned, as returned
    \* load_da
    image, f_pos, da_count, da_i, da_codes,
    da_caller,     \* who called load_da: "main" or "send_da"
    \* configuration: the module-level SKIP_SLA
    skip_sla,
    \* read_serial(s, n) in send_auth_file, qualify_host, send_da
    rd_need,       \* bytes the pending read_serial still waits for
    rd_buf,        \* bytes it has read so far
    fr_sent,       \* frames the running function has written, in order
    fr_read,       \* frames the running function has read and compared
    ip,            \* qualify_host: the 16-byte challenge
    \* how each of the three calls ended
    sa_result, qh_result, sd_result

transport == <<tx, rx, dev>>
hsVars == <<rdata, is_preloader, retry, hs_i, hs_result>>
rrVars == <<rr_cmd, rr_call, rr_echo, ctr, rr_ret, rr_slept, rr_clean>>
gcVars == <<hw_code_resp, hw_sub_resp, chip_map, chip_config, gc_returned>>
daVars == <<image, f_pos, da_count, da_i, da_codes>>
rdVars == <<rd_need, rd_buf>>
frVars == <<fr_sent, fr_read>>
endVars == <<sa_result, qh_result, sd_result>>
flVars == <<da_caller, skip_sla, rdVars, frVars, ip, endVars>>
vars == <<device, pc, exc, transport, hsVars, pl_ver, rrVars, gcVars, daVars, flVars>>

\* Python's None as a value of rr_ret / chip_config / pl_ver
NoneVal == <<-1>>

Init ==
    /\ device \in 1..Len(Devices)
    /\ pc = "hs_write"
    /\ exc = "none"
    /\ tx = <<>>
    /\ rx = <<>>
    /\ dev = Devices[device].greet
    /\ rdata = <<>>
    /\ is_preloader = FALSE
    /\ retry = TRUE
    /\ hs_i = 1
    /\ hs_result = "pending"
    /\ pl_ver = NoneVal
    /\ rr_cmd = 0
    /\ rr_call = 0
    /\ rr_echo = NoneVal
    /\ ctr = 0
    /\ rr_ret = NoneVal
    /\ rr_slept = 0
    /\ rr_clean = FALSE
    /\ hw_code_resp = <<>>
    /\ hw_sub_resp = <<>>
    /\ chip_map = StaticChipMap
    /\ chip_config = NoneVal
    /\ gc_returned = <<>>
    /\ image = NoImage
    /\ f_pos = 0
    /\ da_count = <<>>
    /\ da_i = 0
    /\ da_codes = <<>>
    /\ da_caller = "main"
    /\ skip_sla = FALSE
    /\ rd_need = 0
    /\ rd_buf = <<>>
    /\ fr_sent = <<>>
    /\ fr_read = <<>>
    /\ ip = <<>>
    /\ sa_result = "pending"
    /\ qh_result = "pending"
    /\ sd_result = "pending"

(***************************************************************************)
(* Transport                                                               *)
(***************************************************************************)
\* the device puts its next queued byte on the wire
DeviceEmit ==
    /\ dev # <<>>
    /\ rx' = Append(rx, Head(dev))
    /\ dev' = Tail(dev)
    /\ UNCHANGED <<flVars, device, pc, exc, tx, hsVars, pl_ver, rrVars, gcVars, daVars>>

\* write_serial(s, one byte): s.write, and the device reacts to the byte
HostWrite(b) ==
    /\ tx' = Append(tx, b)
    /\ dev' = dev \o DeviceReply(device, Len(tx) + 1)
    /\ rx' = rx

(***************************************************************************)
(* try_handshake                                                           *)
(***************************************************************************)
\* for cmd_byte in cmd_bytes: write_serial(s, _data)
HsWrite ==
    /\ pc = "hs_write"
    /\ HostWrite(HandshakeData[hs_i])
    /\ pc' = "hs_wait"
    /\ UNCHANGED <<flVars, device, exc, hsVars, pl_ver, rrVars, gcVars, daVars>>

\* while not s.in_waiting: continue; rdata += read_serial(s, 1)
HsReadFirst ==
    /\ pc = "hs_wait"
    /\ rx # <<>>
    /\ rdata' = Append(rdata, Head(rx))
    /\ rx' = Tail(rx)
    /\ pc' = "hs_drain"
    /\ UNCHANGED <<flVars, device, exc, tx, dev, is_preloader, retry, hs_i, hs_result,
                   pl_ver, rrVars, gcVars, daVars>>

\* mutant: the greeting is noted and the remaining magic bytes are sent
HsAfterDrainNoRestart(rd) ==
    [is_preloader |-> is_preloader \/ rd = PreloaderGreet, retry |-> FALSE,
     restart |-> FALSE, finished |-> hs_i = Len(HandshakeData)]

\* what the loops do once the drained rdata is known: the greeting breaks the
\* for loop (and the while loop runs again only if retry is still True);
\* anything else clears retry and moves to the next magic byte
HsAfterDrain(rd) ==
    IF rd = PreloaderGreet
    THEN [is_preloader |-> TRUE, retry |-> retry,
          restart |-> retry, finished |-> ~retry]
    ELSE [is_preloader |-> is_preloader, retry |-> FALSE,
          restart |-> FALSE, finished |-> hs_i = Len(HandshakeData)]

\* rb_count = s.in_waiting; for i in range(rb_count): rdata += read_serial(s, 1);
\* if rdata == preloader_greet: ... break; retry = False
HsDrain ==
    /\ pc = "hs_drain"
    /\ LET rd == rdata \o rx
           nx == HsAfterDrain(rd)
       IN  /\ rx' = <<>>
           /\ is_preloader' = nx.is_preloader
           /\ retry' = nx.retry
           /\ rdata' = IF nx.restart THEN <<>> ELSE rd
           /\ hs_i' = IF nx.restart THEN 1
                      ELSE IF nx.finished THEN hs_i ELSE hs_i + 1
           /\ pc' = IF nx.finished THEN "hs_classify" ELSE "hs_write"
    /\ UNCHANGED <<flVars, device, exc, tx, dev, hs_result, pl_ver, rrVars, gcVars, daVars>>

\* mutant: the echoed input is treated as a failure
HsOutcomeEchoFails(rd) ==
    IF rd = HandshakeMagic THEN "Established" ELSE "Failed"

\* if rdata == handshake_magic: return True; elif rdata == data: warning;
\* else: sys.exit(0)
HsOutcome(rd) ==
    IF rd = HandshakeMagic THEN "Established"
    ELSE IF rd = HandshakeData THEN "AlreadyDone"
    ELSE "Failed"

HsClassify ==
    /\ pc = "hs_classify"
    /\ hs_result' = HsOutcome(rdata)
    /\ IF HsOutcome(rdata) = "Failed"
       THEN pc' = "exited" /\ exc' = "SystemExit"
       ELSE pc' = "cp_write" /\ exc' = exc
    /\ UNCHANGED <<flVars, device, transport, rdata, is_preloader, retry, hs_i,
                   pl_ver, rrVars, gcVars, daVars>>

(***************************************************************************)
(* check_preloader                                                         *)
(***************************************************************************)
CpWrite ==
    /\ pc = "cp_write"
    /\ HostWrite(CmdPreloaderVer)
    /\ pc' = "cp_read"
    /\ UNCHANGED <<flVars, device, exc, hsVars, pl_ver, rrVars, gcVars, daVars>>

\* rb = read_serial(s, 1); either branch only prints.  main then calls
\* get_chip_id, which calls read_resp(s, 'fd')
CpRead ==
    /\ pc = "cp_read"
    /\ rx # <<>>
    /\ pl_ver' = <<Head(rx)>>
    /\ rx' = Tail(rx)
    /\ rr_cmd' = CmdHwCode
    /\ rr_call' = 1
    /\ pc' = "rr_write"
    /\ UNCHANGED <<flVars, device, exc, tx, dev, hsVars, rr_echo, ctr, rr_ret, rr_slept, rr_clean,
                   gcVars, daVars>>


(***************************************************************************)
(* read_resp(s, cmd)                                                       *)
(***************************************************************************)
\* write_serial(s, cmd).  rr_clean records whether the channel was quiet
\* when the command went out (nothing buffered, nothing on its way);
\* rr_slept counts the time.sleep(0.1) intervals of this call.
RrWrite ==
    /\ pc = "rr_write"
    /\ HostWrite(rr_cmd)
    /\ rr_clean' = (rx = <<>> /\ dev = <<>>)
    /\ rr_slept' = 0
    /\ pc' = "rr_echo"
    /\ UNCHANGED <<flVars, device, exc, hsVars, pl_ver, rr_cmd, rr_call, rr_echo, ctr, rr_ret,
                   gcVars, daVars>>

\* if ''.join(read_serial(s, 1)) == cmd: ctr = 0 ...; otherwise the function
\* falls off its end and returns None
RrEcho ==
    /\ pc = "rr_echo"
    /\ rx # <<>>
    /\ rx' = Tail(rx)
    /\ rr_echo' = <<Head(rx)>>
    /\ IF Head(rx) = rr_cmd
       THEN /\ ctr' = 0
            /\ rr_ret' = rr_ret
            /\ pc' = "rr_settle"
       ELSE /\ rr_ret' = NoneVal
            /\ pc' = "rr_ret"
            /\ ctr' = ctr
    /\ UNCHANGED <<flVars, device, exc, tx, dev, hsVars, pl_ver, rr_cmd, rr_call, rr_slept,
                   rr_clean, gcVars, daVars>>

\* time.sleep(inital_sleep)
RrSettle ==
    /\ pc = "rr_settle"
    /\ rr_slept' = rr_slept + 1
    /\ pc' = "rr_check"
    /\ UNCHANGED <<flVars, device, exc, transport, hsVars, pl_ver, rr_cmd, rr_call, rr_echo, ctr,
                   rr_ret, rr_clean, gcVars, daVars>>

\* while not s.in_waiting:
RrCheck ==
    /\ pc = "rr_check"
    /\ pc' = IF rx = <<>> THEN "rr_sleep" ELSE "rr_read"
    /\ UNCHANGED <<flVars, device, exc, transport, hsVars, pl_ver, rrVars, gcVars, daVars>>

\* time.sleep(0.1); if ctr == 15: break; else: ctr += 1; continue
RrSleep ==
    /\ pc = "rr_sleep"
    /\ rr_slept' = rr_slept + 1
    /\ IF ctr = PollLimit
       THEN pc' = "rr_read" /\ ctr' = ctr
       ELSE pc' = "rr_check" /\ ctr' = ctr + 1
    /\ UNCHANGED <<flVars, device, exc, transport, hsVars, pl_ver, rr_cmd, rr_call, rr_echo,
                   rr_ret, rr_clean, gcVars, daVars>>

\* return read_serial(s, s.in_waiting)
RrRead ==
    /\ pc = "rr_read"
    /\ rr_ret' = rx
    /\ rx' = <<>>
    /\ pc' = "rr_ret"
    /\ UNCHANGED <<flVars, device, exc, tx, dev, hsVars, pl_ver, rr_cmd, rr_call, rr_echo, ctr,
                   rr_slept, rr_clean, gcVars, daVars>>

(***************************************************************************)
(* get_chip_id                                                             *)
(***************************************************************************)
\* bstr_to_int(bstr): ''.join(None) raises TypeError
BstrToInt(bstr) == FromBytesBig(bstr)

\* mutant: the table is consulted as soon as the FD response is decoded,
\* before FC is sent
GcHwCodeLookupFirst ==
    /\ pc = "rr_ret"
    /\ rr_call = 1
    /\ IF rr_ret = NoneVal
       THEN /\ exc' = "TypeError"
            /\ pc' = "raised"
            /\ UNCHANGED <<hw_code_resp, rr_cmd, rr_call>>
       ELSE IF ShiftRight(BstrToInt(rr_ret), 16) \notin DOMAIN chip_map
       THEN /\ exc' = "KeyError"
            /\ pc' = "raised"
            /\ hw_code_resp' = BstrToInt(rr_ret)
            /\ UNCHANGED <<rr_cmd, rr_call>>
       ELSE /\ hw_code_resp' = BstrToInt(rr_ret)
            /\ rr_cmd' = CmdHwSub
            /\ rr_call' = 2
            /\ pc' = "rr_write"
            /\ exc' = exc
    /\ UNCHANGED <<flVars, device, transport, hsVars, pl_ver, rr_echo, ctr, rr_ret, rr_slept,
                   rr_clean, hw_sub_resp, chip_map, chip_config, gc_returned, daVars>>

\* hw_code_resp = bstr_to_int(read_resp(s, hw_code_cmd)), and then the call
\* read_resp(s, hw_sub_cmd)
GcHwCode ==
    /\ pc = "rr_ret"
    /\ rr_call = 1
    /\ IF rr_ret = NoneVal
       THEN /\ exc' = "TypeError"
            /\ pc' = "raised"
            /\ UNCHANGED <<hw_code_resp, rr_cmd, rr_call>>
       ELSE /\ hw_code_resp' = BstrToInt(rr_ret)
            /\ rr_cmd' = CmdHwSub
            /\ rr_call' = 2
            /\ pc' = "rr_write"
            /\ exc' = exc
    /\ UNCHANGED <<flVars, device, transport, hsVars, pl_ver, rr_echo, ctr, rr_ret, rr_slept,
                   rr_clean, hw_sub_resp, chip_map, chip_config, gc_returned, daVars>>

\* hw_sub_resp = bstr_to_int(read_resp(s, hw_sub_cmd))
GcHwSub ==
    /\ pc = "rr_ret"
    /\ rr_call = 2
    /\ IF rr_ret = NoneVal
       THEN /\ exc' = "TypeError"
            /\ pc' = "raised"
            /\ hw_sub_resp' = hw_sub_resp
       ELSE /\ hw_sub_resp' = BstrToInt(rr_ret)
            /\ pc' = "gc_lookup"
            /\ exc' = exc
    /\ UNCHANGED <<flVars, device, transport, hsVars, pl_ver, rrVars, hw_code_resp,
                   chip_map, chip_config, gc_returned, daVars>>

\* the three fields get_chip_id derives from hw_sub_resp
HwSubCode(sub) == ShiftRight(ShiftRight(sub, 32), 16)
\* mutant: hw_version masked with 0xFF
HwVersionByte(sub) == MaskLow(ShiftRight(sub, 32), 8)
HwVersion(sub) == MaskLow(ShiftRight(sub, 32), 16)
SwVersion(sub) == MaskLow(sub, 32)

\* chip_config = chip_map[hw_code_resp >> 16]
ChipLookupKey(hw) == ShiftRight(hw, 16)

\* chip_config = chip_map[...] (KeyError on a miss), the three stores into
\* chip_config, which is the table's own entry, and return chip_config.
\* chip_config holds the key of the entry it refers to; gc_returned keeps,
\* per call, the descriptor as it read when the call returned it.
GcLookup ==
    /\ pc = "gc_lookup"
    /\ LET key == ChipLookupKey(hw_code_resp)
       IN  IF key \notin DOMAIN chip_map
           THEN /\ exc' = "KeyError"
                /\ pc' = "raised"
                /\ UNCHANGED <<chip_map, chip_config, gc_returned>>
           ELSE /\ chip_map' = [chip_map EXCEPT
                                   ![key].hw_sub_code = HwSubCode(hw_sub_resp),
                                   ![key].hw_version = HwVersion(hw_sub_resp),
                                   ![key].sw_version = SwVersion(hw_sub_resp)]
                /\ chip_config' = key
                /\ gc_returned' = Append(gc_returned, chip_map'[key])
                /\ pc' = "da_open"
                /\ exc' = exc
    /\ UNCHANGED <<flVars, device, transport, hsVars, pl_ver, rrVars, hw_code_resp,
                   hw_sub_resp, daVars>>

(***************************************************************************)
(* load_da                                                                 *)
(***************************************************************************)
\* f = open(target_da, 'rb'); pos = 0x68; f.seek(pos)
DaOpen ==
    /\ pc = "da_open"
    /\ image' \in DAImages
    /\ f_pos' = DaStart
    /\ pc' = "da_count"
    /\ UNCHANGED <<flVars, device, exc, transport, hsVars, pl_ver, rrVars, gcVars,
                   da_count, da_i, da_codes>>

\* da_count = unpack("<I", f.read(4))[0]: struct.error on a short read
DaReadCount ==
    /\ pc = "da_count"
    /\ LET bs == FileRead(image, f_pos, DaWordLen)
       IN  /\ f_pos' = f_pos + Len(bs)
           /\ IF Len(bs) < DaWordLen
              THEN /\ exc' = "struct.error"
                   /\ pc' = "raised"
                   /\ UNCHANGED <<da_count, da_i>>
              ELSE /\ da_count' = UnpackLE32(bs)
                   /\ da_i' = 0
                   /\ pc' = "da_rec"
                   /\ exc' = exc
    /\ UNCHANGED <<flVars, device, transport, hsVars, pl_ver, rrVars, gcVars, image, da_codes>>

\* mutant: the seek forgets the four bytes just read
DaNextPosWholeRecord(tell) == tell + DaRecordLen

\* where the cursor goes after a record's word: f.seek(f.tell() + 220 - 4)
DaNextPos(tell) == tell + DaRecordLen - DaWordLen

\* hw_code = hex(unpack("<I", f.read(4))[0] >> 16)
DaHwCode(bs) == ToInt(ShiftRight(UnpackLE32(bs), 16))

\* one iteration of for i in range(da_count)
DaRecord ==
    /\ pc = "da_rec"
    /\ da_i < ToInt(da_count)
    /\ LET bs == FileRead(image, f_pos, DaWordLen)
       IN  IF Len(bs) < DaWordLen
           THEN /\ exc' = "struct.error"
                /\ pc' = "raised"
                /\ f_pos' = f_pos + Len(bs)
                /\ UNCHANGED <<da_i, da_codes>>
           ELSE /\ da_codes' = Append(da_codes, DaHwCode(bs))
                /\ f_pos' = DaNextPos(f_pos + Len(bs))
                /\ da_i' = da_i + 1
                /\ pc' = "da_rec"
                /\ exc' = exc
    /\ UNCHANGED <<flVars, device, transport, hsVars, pl_ver, rrVars, gcVars, image, da_count>>

\* the for loop is exhausted: load_da returns (nothing) to its caller; main
\* ends the session
DaFinish ==
    /\ pc = "da_rec"
    /\ da_i = ToInt(da_count)
    /\ pc' = IF da_caller = "main" THEN "done" ELSE "sd_body"
    /\ UNCHANGED <<flVars, device, exc, transport, hsVars, pl_ver, rrVars, gcVars, daVars>>

(***************************************************************************)
(* The session of __main__: try_handshake, check_preloader, get_chip_id,   *)
(* load_da                                                                 *)
(***************************************************************************)
Next ==
    \/ DeviceEmit
    \/ HsWrite \/ HsReadFirst \/ HsDrain \/ HsClassify
    \/ CpWrite \/ CpRead
    \/ RrWrite \/ RrEcho \/ RrSettle \/ RrCheck \/ RrSleep \/ RrRead
    \/ GcHwCode \/ GcHwSub \/ GcLookup
    \/ DaOpen \/ DaReadCount \/ DaRecord \/ DaFinish

Spec == Init /\ [][Next]_vars

(***************************************************************************)
(* A caller that identifies the chip again on the same session: after      *)
(* get_chip_id has returned, it may call get_chip_id(ser) once more        *)
(* instead of going on to load_da.                                         *)
(***************************************************************************)
GcAgain ==
    /\ pc = "da_open"
    /\ Len(gc_returned) < MaxIdentify
    /\ rr_cmd' = CmdHwCode
    /\ rr_call' = 1
    /\ pc' = "rr_write"
    /\ UNCHANGED <<flVars, device, exc, transport, hsVars, pl_ver, rr_echo, ctr, rr_ret, rr_slept,
                   rr_clean, gcVars, daVars>>

NextRerun == Next \/ GcAgain

SpecRerun == Init /\ [][NextRerun]_vars


(***************************************************************************)
(* read_serial and write_serial_raw as send_auth_file, qualify_host and     *)
(* send_da use them: a frame is written byte by byte, the device reacting  *)
(* to each byte, and a read blocks until its bytes have arrived            *)
(***************************************************************************)
HostWriteAll(bs) ==
    /\ tx' = tx \o bs
    /\ dev' = dev \o Flatten([i \in 1..Len(bs) |-> DeviceReply(device, Len(tx) + i)])
    /\ rx' = rx

\* read_serial(s, n) is called: n bytes are wanted
StartRead(n) ==
    /\ rd_need' = n
    /\ rd_buf' = <<>>

\* one iteration of read_serial's loop: s.read(1) returns a byte
ReadByte ==
    /\ rd_need > 0
    /\ rx # <<>>
    /\ rd_buf' = Append(rd_buf, Head(rx))
    /\ rx' = Tail(rx)
    /\ rd_need' = rd_need - 1
    /\ UNCHANGED <<device, pc, exc, tx, dev, hsVars, pl_ver, rrVars, gcVars, daVars,
                   da_caller, skip_sla, frVars, ip, endVars>>

\* sys.exit(0)
SysExit ==
    /\ exc' = "SystemExit"
    /\ pc' = "exited"

(***************************************************************************)
(* send_auth_file                                                          *)
(***************************************************************************)
\* the contents of auth_sv5.auth
AuthFiles == {[i \in 1..MaxAuthLen |-> 16 + i], [i \in 1..MaxAuthLen |-> 255]}

\* data = 'e2'; write_serial(s, data)
SaCmd ==
    /\ pc = "sa_cmd"
    /\ HostWriteAll(<<CmdSendAuth>>)
    /\ StartRead(1)
    /\ fr_sent' = << <<CmdSendAuth>> >>
    /\ fr_read' = <<>>
    /\ pc' = "sa_echo"
    /\ UNCHANGED <<device, exc, hsVars, pl_ver, rrVars, gcVars, daVars, da_caller,
                   skip_sla, ip, endVars>>

\* if ''.join(read_serial(s, 1)) == data: write '000008d0' else abort
SaEcho ==
    /\ pc = "sa_echo"
    /\ rd_need = 0
    /\ fr_read' = Append(fr_read, rd_buf)
    /\ IF rd_buf = <<CmdSendAuth>>
       THEN /\ HostWriteAll(AuthLenFrame)
            /\ StartRead(Len(AuthLenFrame))
            /\ fr_sent' = Append(fr_sent, AuthLenFrame)
            /\ pc' = "sa_len"
            /\ UNCHANGED <<exc, sa_result>>
       ELSE /\ sa_result' = "Send Auth File failed"
            /\ SysExit
            /\ UNCHANGED <<transport, rdVars, fr_sent>>
    /\ UNCHANGED <<device, hsVars, pl_ver, rrVars, gcVars, daVars, da_caller,
                   skip_sla, ip, qh_result, sd_result>>

\* mutant: the echo of the length is read and not compared
SaLenAnyEcho ==
    /\ pc = "sa_len"
    /\ rd_need = 0
    /\ fr_read' = Append(fr_read, rd_buf)
    /\ StartRead(2)
    /\ pc' = "sa_pre"
    /\ UNCHANGED <<device, exc, transport, hsVars, pl_ver, rrVars, gcVars, daVars, da_caller,
                   skip_sla, fr_sent, ip, endVars>>

\* if ''.join(read_serial(s, 4)) == data: read_serial(s, 2) else abort
SaLen ==
    /\ pc = "sa_len"
    /\ rd_need = 0
    /\ fr_read' = Append(fr_read, rd_buf)
    /\ IF rd_buf = AuthLenFrame
       THEN /\ StartRead(2)
            /\ pc' = "sa_pre"
            /\ UNCHANGED <<exc, sa_result>>
       ELSE /\ sa_result' = "Bad command"
            /\ SysExit
            /\ UNCHANGED rdVars
    /\ UNCHANGED <<device, transport, hsVars, pl_ver, rrVars, gcVars, daVars, da_caller,
                   skip_sla, fr_sent, ip, qh_result, sd_result>>

\* write_serial_raw(s, load_auth_file()); read_serial(s, 2)
SaBlob ==
    /\ pc = "sa_pre"
    /\ rd_need = 0
    /\ \E blob \in AuthFiles:
          /\ HostWriteAll(blob)
          /\ fr_sent' = Append(fr_sent, blob)
    /\ fr_read' = Append(fr_read, rd_buf)
    /\ StartRead(2)
    /\ pc' = "sa_post"
    /\ UNCHANGED <<device, exc, hsVars, pl_ver, rrVars, gcVars, daVars, da_caller,
                   skip_sla, ip, endVars>>

\* the two bytes after the file are read; read_serial(s, 2) for the status
SaPost ==
    /\ pc = "sa_post"
    /\ rd_need = 0
    /\ fr_read' = Append(fr_read, rd_buf)
    /\ StartRead(2)
    /\ pc' = "sa_status"
    /\ UNCHANGED <<device, exc, transport, hsVars, pl_ver, rrVars, gcVars, daVars,
                   da_caller, skip_sla, fr_sent, ip, endVars>>

\* mutant: a refused auth file is reported and the function returns
SaStatusReturns ==
    /\ pc = "sa_status"
    /\ rd_need = 0
    /\ fr_read' = Append(fr_read, rd_buf)
    /\ sa_result' = IF rd_buf = AuthStatusOk THEN "Auth file send success"
                    ELSE "Failed to send auth file"
    /\ pc' = "qh_enter"
    /\ UNCHANGED <<device, exc, transport, hsVars, pl_ver, rrVars, gcVars, daVars,
                   da_caller, skip_sla, rdVars, fr_sent, ip, qh_result, sd_result>>

\* if ''.join(read_serial(s, 2)) == '0000': success, and main goes on to
\* qualify_host; else abort
SaStatus ==
    /\ pc = "sa_status"
    /\ rd_need = 0
    /\ fr_read' = Append(fr_read, rd_buf)
    /\ IF rd_buf = AuthStatusOk
       THEN /\ sa_result' = "Auth file send success"
            /\ pc' = "qh_enter"
            /\ exc' = exc
       ELSE /\ sa_result' = "Failed to send auth file"
            /\ SysExit
    /\ UNCHANGED <<device, transport, hsVars, pl_ver, rrVars, gcVars, daVars,
                   da_caller, skip_sla, rdVars, fr_sent, ip, qh_result, sd_result>>

(***************************************************************************)
(* qualify_host                                                            *)
(***************************************************************************)
\* mutant: the flag is not looked at
SkipQualifyNever == FALSE

\* if SKIP_SLA
SkipQualify == skip_sla

\* SKIP_SLA: return at once; else data = 'e3'; write_serial(s, data)
QhEnter ==
    /\ pc = "qh_enter"
    /\ IF SkipQualify
       THEN /\ qh_result' = "skipped"
            /\ pc' = "sd_cmd"
            /\ UNCHANGED <<transport, rdVars, frVars>>
       ELSE /\ HostWriteAll(<<CmdQualify>>)
            /\ StartRead(1)
            /\ fr_sent' = << <<CmdQualify>> >>
            /\ fr_read' = <<>>
            /\ pc' = "qh_echo"
            /\ qh_result' = qh_result
    /\ UNCHANGED <<device, exc, hsVars, pl_ver, rrVars, gcVars, daVars, da_caller,
                   skip_sla, ip, sa_result, sd_result>>

\* if ''.join(read_serial(s, 1)) == data: read_serial(s, 2); read_serial(s, 4);
\* ip = read_serial(s, 16); with no else branch the function returns
QhEcho ==
    /\ pc = "qh_echo"
    /\ rd_need = 0
    /\ fr_read' = Append(fr_read, rd_buf)
    /\ IF rd_buf = <<CmdQualify>>
       THEN /\ StartRead(QualifyPreLen + QualifyIpLen)
            /\ pc' = "qh_ip"
            /\ qh_result' = qh_result
       ELSE /\ qh_result' = "echo differs"
            /\ pc' = "sd_cmd"
            /\ UNCHANGED rdVars
    /\ UNCHANGED <<device, exc, transport, hsVars, pl_ver, rrVars, gcVars, daVars,
                   da_caller, skip_sla, fr_sent, ip, sa_result, sd_result>>

\* ip is read; data = '00000100'; write_serial(s, data)
QhIp ==
    /\ pc = "qh_ip"
    /\ rd_need = 0
    /\ ip' = SubSeq(rd_buf, QualifyPreLen + 1, QualifyPreLen + QualifyIpLen)
    /\ fr_read' = Append(fr_read, rd_buf)
    /\ HostWriteAll(QualifyFrame)
    /\ fr_sent' = Append(fr_sent, QualifyFrame)
    /\ StartRead(Len(QualifyFrame))
    /\ pc' = "qh_frame"
    /\ UNCHANGED <<device, exc, hsVars, pl_ver, rrVars, gcVars, daVars, da_caller,
                   skip_sla, endVars>>

\* if ''.join(read_serial(s, 4)) == data: read_serial(s, 2); with no else
\* branch the function returns
QhFrame ==
    /\ pc = "qh_frame"
    /\ rd_need = 0
    /\ fr_read' = Append(fr_read, rd_buf)
    /\ IF rd_buf = QualifyFrame
       THEN /\ StartRead(2)
            /\ pc' = "qh_pre"
            /\ qh_result' = qh_result
       ELSE /\ qh_result' = "frame differs"
            /\ pc' = "sd_cmd"
            /\ UNCHANGED rdVars
    /\ UNCHANGED <<device, exc, transport, hsVars, pl_ver, rrVars, gcVars, daVars,
                   da_caller, skip_sla, fr_sent, ip, sa_result, sd_result>>

\* for i in range(0, 16): write_serial(s, ''.join(ip)); read_serial(s, 2)
QhSend ==
    /\ pc = "qh_pre"
    /\ rd_need = 0
    /\ fr_read' = Append(fr_read, rd_buf)
    /\ LET all == Flatten([i \in 1..QualifyRepeat |-> ip])
       IN  /\ HostWriteAll(all)
           /\ fr_sent' = Append(fr_sent, all)
    /\ StartRead(2)
    /\ pc' = "qh_post"
    /\ UNCHANGED <<device, exc, hsVars, pl_ver, rrVars, gcVars, daVars, da_caller,
                   skip_sla, ip, endVars>>

\* the last two bytes are read and qualify_host returns; main goes on to send_da
QhReturn ==
    /\ pc = "qh_post"
    /\ rd_need = 0
    /\ fr_read' = Append(fr_read, rd_buf)
    /\ qh_result' = "returned"
    /\ pc' = "sd_cmd"
    /\ UNCHANGED <<device, exc, transport, hsVars, pl_ver, rrVars, gcVars, daVars,
                   da_caller, skip_sla, rdVars, fr_sent, ip, sa_result, sd_result>>

(***************************************************************************)
(* send_da                                                                 *)
(***************************************************************************)
\* data = 'd7'; write_serial(s, data)
SdCmd ==
    /\ pc = "sd_cmd"
    /\ HostWriteAll(<<CmdSendDa>>)
    /\ StartRead(1)
    /\ fr_sent' = << <<CmdSendDa>> >>
    /\ fr_read' = <<>>
    /\ pc' = "sd_echo"
    /\ UNCHANGED <<device, exc, hsVars, pl_ver, rrVars, gcVars, daVars, da_caller,
                   skip_sla, ip, endVars>>

\* if ''.join(read_serial(s, 1)) == data: write '00200000'; with no else
\* branch the function returns
SdEcho ==
    /\ pc = "sd_echo"
    /\ rd_need = 0
    /\ fr_read' = Append(fr_read, rd_buf)
    /\ IF rd_buf = <<CmdSendDa>>
       THEN /\ HostWriteAll(SendDaFrames[1])
            /\ StartRead(Len(SendDaFrames[1]))
            /\ fr_sent' = Append(fr_sent, SendDaFrames[1])
            /\ pc' = "sd_frame"
            /\ sd_result' = sd_result
       ELSE /\ sd_result' = "echo differs"
            /\ pc' = "finished"
            /\ UNCHANGED <<transport, rdVars, fr_sent>>
    /\ UNCHANGED <<device, exc, hsVars, pl_ver, rrVars, gcVars, daVars, da_caller,
                   skip_sla, ip, sa_result, qh_result>>

\* mutant: the echo of a frame is read and not compared
FrameEchoedUnchecked(sent, got) == Len(got) = Len(sent)

\* ''.join(read_serial(s, 4)) != data, negated
FrameEchoed(sent, got) == got = sent

\* the echo of frame k: return if it differs; else write frame k + 1, or,
\* after the third, read_serial(s, 2)
SdFrame ==
    /\ pc = "sd_frame"
    /\ rd_need = 0
    /\ fr_read' = Append(fr_read, rd_buf)
    /\ LET k == Len(fr_sent) - 1
       IN  IF ~FrameEchoed(SendDaFrames[k], rd_buf)
           THEN /\ sd_result' = "frame differs"
                /\ pc' = "finished"
                /\ UNCHANGED <<transport, rdVars, fr_sent>>
           ELSE IF k < Len(SendDaFrames)
           THEN /\ HostWriteAll(SendDaFrames[k + 1])
                /\ StartRead(Len(SendDaFrames[k + 1]))
                /\ fr_sent' = Append(fr_sent, SendDaFrames[k + 1])
                /\ pc' = "sd_frame"
                /\ sd_result' = sd_result
           ELSE /\ StartRead(2)
                /\ pc' = "sd_status"
                /\ UNCHANGED <<transport, fr_sent, sd_result>>
    /\ UNCHANGED <<device, exc, hsVars, pl_ver, rrVars, gcVars, daVars, da_caller,
                   skip_sla, ip, sa_result, qh_result>>

\* ba = load_da(): the call
SdLoad ==
    /\ pc = "sd_status"
    /\ rd_need = 0
    /\ fr_read' = Append(fr_read, rd_buf)
    /\ da_caller' = "send_da"
    /\ da_count' = <<>>
    /\ da_i' = 0
    /\ da_codes' = <<>>
    /\ pc' = "da_open"
    /\ UNCHANGED <<device, exc, transport, hsVars, pl_ver, rrVars, gcVars, image, f_pos,
                   skip_sla, rdVars, fr_sent, ip, endVars>>

\* what load_da returns: it has no return statement
LoadDaReturn == NoneVal

\* the slices ba[i * 8192:(i + 1) * 8192] for i in range(int(len(ba) / 8192))
DaChunks(ba) ==
    [i \in 1..(Len(ba) \div ChunkLen) |-> SubSeq(ba, (i - 1) * ChunkLen + 1, i * ChunkLen)]

\* for i in range(int(len(ba) / 8192)): write_serial_raw(s, slice i), then
\* read_serial(s, 2) twice.  len(None) raises TypeError, so no run of the
\* program reaches the loop or the reads after it (position "sd_tail").
SdBody ==
    /\ pc = "sd_body"
    /\ LET ba == LoadDaReturn
       IN  IF ba = NoneVal
           THEN /\ exc' = "TypeError"
                /\ pc' = "raised"
                /\ sd_result' = "len(None)"
                /\ UNCHANGED <<transport, rdVars, fr_sent>>
           ELSE /\ HostWriteAll(Flatten(DaChunks(ba)))
                /\ fr_sent' = fr_sent \o DaChunks(ba)
                /\ StartRead(2 + 2)
                /\ sd_result' = "body sent"
                /\ pc' = "sd_tail"
                /\ exc' = exc
    /\ UNCHANGED <<device, hsVars, pl_ver, rrVars, gcVars, daVars, da_caller,
                   skip_sla, fr_read, ip, sa_result, qh_result>>

(***************************************************************************)
(* The session of __main__ with the three calls that are commented out     *)
(* there (send_auth_file, qualify_host, send_da) made after load_da        *)
(***************************************************************************)
\* load_da() has returned to main: send_auth_file(ser).  The locals of
\* read_resp, get_chip_id and load_da went out of scope when these returned.
MainGoesOn ==
    /\ pc = "done"
    /\ pc' = "sa_cmd"
    /\ rr_cmd' = 0
    /\ rr_call' = 0
    /\ rr_echo' = NoneVal
    /\ ctr' = 0
    /\ rr_ret' = NoneVal
    /\ rr_slept' = 0
    /\ rr_clean' = FALSE
    /\ hw_code_resp' = <<>>
    /\ hw_sub_resp' = <<>>
    /\ chip_config' = NoneVal
    /\ image' = NoImage
    /\ f_pos' = 0
    /\ da_count' = <<>>
    /\ da_i' = 0
    /\ da_codes' = <<>>
    /\ UNCHANGED <<flVars, device, exc, transport, hsVars, pl_ver, chip_map, gc_returned>>

InitFlash ==
    /\ device \in (Len(Devices) + 1)..Len(AllDevices)
    /\ skip_sla \in (IF device \in SkipSlaDevices THEN BOOLEAN ELSE {FALSE})
    /\ pc = "hs_write"
    /\ exc = "none"
    /\ tx = <<>>
    /\ rx = <<>>
    /\ dev = AllDevices[device].greet
    /\ rdata = <<>>
    /\ is_preloader = FALSE
    /\ retry = TRUE
    /\ hs_i = 1
    /\ hs_result = "pending"
    /\ pl_ver = NoneVal
    /\ rr_cmd = 0
    /\ rr_call = 0
    /\ rr_echo = NoneVal
    /\ ctr = 0
    /\ rr_ret = NoneVal
    /\ rr_slept = 0
    /\ rr_clean = FALSE
    /\ hw_code_resp = <<>>
    /\ hw_sub_resp = <<>>
    /\ chip_map = StaticChipMap
    /\ chip_config = NoneVal
    /\ gc_returned = <<>>
    /\ image = NoImage
    /\ f_pos = 0
    /\ da_count = <<>>
    /\ da_i = 0
    /\ da_codes = <<>>
    /\ da_caller = "main"
    /\ rd_need = 0
    /\ rd_buf = <<>>
    /\ fr_sent = <<>>
    /\ fr_read = <<>>
    /\ ip = <<>>
    /\ sa_result = "pending"
    /\ qh_result = "pending"
    /\ sd_result = "pending"

NextFlash ==
    \/ Next
    \/ MainGoesOn
    \/ ReadByte
    \/ SaCmd \/ SaEcho \/ SaLen \/ SaBlob \/ SaPost \/ SaStatus
    \/ QhEnter \/ QhEcho \/ QhIp \/ QhFrame \/ QhSend \/ QhReturn
    \/ SdCmd \/ SdEcho \/ SdFrame \/ SdLoad \/ SdBody

SpecFlash == InitFlash /\ [][NextFlash]_vars


(***************************************************************************)
(* Properties                                                              *)
(***************************************************************************)
IsPrefix(a, b) == Len(a) <= Len(b) /\ SubSeq(b, 1, Len(a)) = a

InHandshake == pc \in {"hs_write", "hs_wait", "hs_drain", "hs_classify"}

\* the device sends nothing but "READY" followed by the four reply bytes
SendsReadyThenMagic(d) ==
    /\ Devices[d].greet = PreloaderGreet
    /\ Flatten(SubSeq(Devices[d].replies, 1, Len(HandshakeData) + 1)) = HandshakeMagic

\* the device never sends the greeting
NeverGreets(d) ==
    /\ Devices[d].greet = <<>>
    /\ \A k \in 1..Len(Devices[d].replies) : Devices[d].replies[k] # PreloaderGreet

\* C1: once try_handshake has classified the session, the outcome is decided
\* by the accumulated response alone: success exactly for 5F F5 AF FA (BootROM
\* when the device never greeted), the non-fatal warning exactly for the echoed
\* A0 0A 50 05, with the session going on in both cases, and a hard failure
\* that ends the process (sys.exit) exactly for every other value.
C1_HandshakeClassified ==
    hs_result # "pending" =>
        /\ hs_result \in {"Established", "AlreadyDone", "Failed"}
        /\ (hs_result = "Established") <=> (rdata = <<95, 245, 175, 250>>)
        /\ (hs_result = "AlreadyDone") <=> (rdata = <<160, 10, 80, 5>>)
        /\ (hs_result = "Failed") <=> (exc = "SystemExit")
        /\ (hs_result = "Failed") <=> (pc = "exited")
        /\ (hs_result = "Established" /\ NeverGreets(device)) => ~is_preloader

\* C1 witness: the echoed input was classified as the warning and the session
\* went on to check_preloader
C1_Witness ==
    /\ hs_result = "AlreadyDone"
    /\ rdata = HandshakeData
    /\ pc = "cp_read"
    /\ exc = "none"

\* C2: a device that sends "READY" and then the reply magic always ends the
\* handshake Established in Preloader mode, however its bytes are split
\* across the host's reads.
C2_ReadyThenMagicEstablished ==
    (SendsReadyThenMagic(device) /\ hs_result # "pending") =>
        (hs_result = "Established" /\ is_preloader)

\* the same device does reach Established(Preloader) when the greeting is
\* drained in one piece
C2_GoodTiming ==
    /\ SendsReadyThenMagic(device)
    /\ hs_result = "Established"
    /\ is_preloader

MagicWithRestarts(w) ==
    \E m \in 1..Len(w) :
        /\ \A i \in 1..m : w[i] = HandshakeData[1]
        /\ IsPrefix(SubSeq(w, m + 1, Len(w)), Tail(HandshakeData))

CurrentReply == DeviceReply(device, Len(tx))

InPollLoop == pc \in {"rr_settle", "rr_check", "rr_sleep", "rr_read"}

\* C4: when the channel was quiet, the device echoed the command and all its
\* response bytes were sent within the poll window, read_resp returns exactly
\* the response bytes.
C4_ReturnsWholeResponse ==
    ( /\ pc = "rr_ret"
      /\ rr_clean
      /\ rr_echo = <<rr_cmd>>
      /\ dev = <<>>
      /\ rr_slept <= PollLimit )
    => rr_ret = Tail(CurrentReply)

\* with the whole response buffered before the first availability check the
\* call does return it
C4_GoodTiming ==
    /\ pc = "rr_ret"
    /\ rr_clean
    /\ rr_cmd = CmdHwCode
    /\ rr_ret = <<7, 102, 0, 0>>
    /\ rr_ret = Tail(CurrentReply)

\* C5: against a device that echoes the command and sends nothing else,
\* read_resp returns the empty result after the settle delay and 15 polls,
\* give or take one poll; the poll loop never blocks and never sleeps more
\* often than that.
C5_NoResponseAfterBoundedPolls ==
    /\ ctr <= 15
    /\ rr_slept <= 1 + 15 + 1
    /\ InPollLoop => ENABLED (RrSettle \/ RrCheck \/ RrSleep \/ RrRead)
    /\ (pc = "rr_ret" /\ rr_clean /\ CurrentReply = <<rr_cmd>>) =>
          /\ rr_ret = <<>>
          /\ rr_slept - 1 \in (15 - 1)..(15 + 1)

\* C5 witness: the silent device timed out
C5_Witness ==
    /\ pc = "rr_ret"
    /\ rr_clean
    /\ CurrentReply = <<rr_cmd>>
    /\ rr_ret = <<>>
    /\ rr_slept = 17

\* C6: after an echo byte that differs from the command, read_resp does not
\* return normally (it fails with an error), and it has not polled.
C6_EchoMismatchFails ==
    (pc \in {"rr_settle", "rr_check", "rr_sleep", "rr_read", "rr_ret"}
        /\ rr_echo # <<rr_cmd>>)
    => (pc # "rr_ret" /\ rr_slept = 0)

\* what the code does on the mismatch: it returns None at once, without a
\* sleep, and None is not the empty list of the timeout
C6_ReturnsNoneAtOnce ==
    (pc = "rr_ret" /\ rr_echo # <<rr_cmd>>) =>
        (rr_ret = NoneVal /\ rr_ret # <<>> /\ rr_slept = 0)

\* C7 as stated: when the hardware code is not in the table, FC is never
\* written.
C7_NoSubCommandOnUnknownChip ==
    exc = "KeyError" => \A i \in 1..Len(tx) : tx[i] # 252

\* C7 amended: get_chip_id sends FD, then FC, and only then consults the
\* table; on a hardware code that is not in the table it fails with KeyError
\* after both commands were written, and the table is not modified.
C7_LookupAfterBothCommands ==
    /\ (pc = "gc_lookup" \/ exc = "KeyError" \/ chip_config # NoneVal) =>
          /\ Len(tx) >= 2
          /\ SubSeq(tx, Len(tx) - 1, Len(tx)) = <<253, 252>>
    /\ exc = "KeyError" =>
          /\ chip_map = StaticChipMap
          /\ chip_config = NoneVal
          /\ SubSeq(hw_code_resp, 1, Len(hw_code_resp) - 2) # <<7, 102>>

\* C7 witness: the chip 0x699 is unknown, and FC had been written
C7_Witness ==
    /\ exc = "KeyError"
    /\ hw_code_resp = <<6, 153, 0, 0>>
    /\ tx[Len(tx)] = 252

\* bs with zero bytes in front, to at least n bytes
PadLeft(bs, n) ==
    IF Len(bs) >= n THEN bs
    ELSE [i \in 1..n |-> IF i <= n - Len(bs) THEN 0 ELSE bs[i - (n - Len(bs))]]

\* C8: with the FC response read as a big-endian number (zero-extended to 8
\* bytes), sw_version is its low four bytes, hw_version the two bytes above
\* them and hw_sub_code everything above those; a response of at most four
\* bytes gives hw_sub_code = hw_version = 0; the descriptor returned is the
\* MT6765 entry, found for the hardware word 0x0766xxxx.
C8_SubWordFields ==
    chip_config # NoneVal =>
        LET d == chip_map[chip_config]
            P == PadLeft(rr_ret, 8)
            n == Len(P)
        IN  /\ d.sw_version = Strip(SubSeq(P, n - 3, n))
            /\ d.hw_version = Strip(SubSeq(P, n - 5, n - 4))
            /\ ToInt(d.hw_version) = P[n - 5] * 256 + P[n - 4]
            /\ d.hw_sub_code = Strip(SubSeq(P, 1, n - 6))
            /\ Len(rr_ret) <= 4 => (d.hw_sub_code = <<>> /\ d.hw_version = <<>>)
            /\ d.name = "MT6765"
            /\ d.hw_code = 26469
            /\ Len(hw_code_resp) = 4 /\ SubSeq(hw_code_resp, 1, 2) = <<7, 102>>

\* C8 witness: hw_word 0x07660000 and the sub word 0001 0002 00000003
C8_Witness ==
    /\ chip_config # NoneVal
    /\ hw_code_resp = <<7, 102, 0, 0>>
    /\ rr_ret = <<0, 1, 0, 2, 0, 0, 0, 3>>
    /\ chip_map[chip_config].hw_sub_code = <<1>>
    /\ chip_map[chip_config].hw_version = <<2>>
    /\ chip_map[chip_config].sw_version = <<3>>
    /\ chip_map[chip_config].name = "MT6765"

\* C9: descriptors are write-once: the static table entry is never changed
\* after process start, and a descriptor that get_chip_id has returned keeps
\* the fields it was returned with when get_chip_id runs again.
C9_DescriptorsWriteOnce ==
    /\ chip_map = StaticChipMap
    /\ \A i \in 1..Len(gc_returned) : chip_map[chip_config] = gc_returned[i]

\* the second half alone: a second get_chip_id leaves the descriptor the
\* first one returned as it was
C9_ReturnedDescriptorKept ==
    \A i \in 1..Len(gc_returned) : chip_map[chip_config] = gc_returned[i]

\* C10: load_da starts at 0x68, and when it returns it has yielded exactly
\* the declared number of codes, the i-th one the upper half of the
\* little-endian word at the start of the i-th 220-byte record, and the
\* cursor is 4 + N*220 bytes past 0x68.
C10_DaParse ==
    /\ pc = "da_count" => f_pos = 104
    /\ pc = "da_rec" => (f_pos = 104 + 4 + da_i * 220 /\ Len(da_codes) = da_i)
    /\ pc = "done" =>
          /\ Len(da_codes) = image.count
          /\ ToInt(da_count) = image.count
          /\ f_pos = 104 + 4 + image.count * 220
          /\ \A i \in 1..Len(da_codes) :
                /\ da_codes[i] = RecordCode(i - 1)
                /\ da_codes[i] = ImageByte(image, 104 + 4 + (i - 1) * 220 + 3) * 256
                                 + ImageByte(image, 104 + 4 + (i - 1) * 220 + 2)

\* C10 witness: three records, codes 0x6765, 0x6761, 0x6768
C10_Witness ==
    /\ pc = "done"
    /\ image.count = 3
    /\ da_codes = <<26469, 26465, 26472>>
    /\ f_pos = 104 + 4 + 3 * 220

(***************************************************************************)
(* send_da                                                                 *)
(***************************************************************************)
\* send_da has ended after load_da returned to it
SendDaEndedAfterLoad ==
    /\ da_caller = "send_da"
    /\ pc \in {"raised", "finished", "sd_tail"}
    /\ exc # "struct.error"

\* C11: once the four echoes of send_da have matched and the image is
\* loaded, the DA body is written as floor(len / 8192) slices of 8192 bytes,
\* the first bytes of the image in order: two slices for an image of 16384
\* bytes, the same two for one of 16385 bytes.
C11_BodySentInWholeChunks ==
    SendDaEndedAfterLoad =>
        LET n == image.len \div ChunkLen
        IN  /\ Len(fr_sent) = 1 + Len(SendDaFrames) + n
            /\ \A i \in 1..n:
                  fr_sent[1 + Len(SendDaFrames) + i]
                      = FileRead(image, (i - 1) * ChunkLen, ChunkLen)

\* the frames in fr_sent are those of a running or ended send_da
InSendDa == fr_sent # <<>> /\ fr_sent[1] = <<CmdSendDa>>

\* the last bytes written to the transport are exactly the frames fs
WrittenLast(fs) ==
    LET bs == Flatten(fs)
    IN  /\ Len(bs) <= Len(tx)
        /\ SubSeq(tx, Len(tx) - Len(bs) + 1, Len(tx)) = bs

\* C12: send_da writes D7, 00200000, 000361a8, 00000100 in this order and
\* nothing else, each frame only after the echo of the frame before it was
\* read back equal to it; after an echo that differs, no further frame and
\* no byte of the DA body is written.
C12_FramesInOrderAfterEchoes ==
    InSendDa =>
        /\ IsPrefix(fr_sent, << <<CmdSendDa>> >> \o SendDaFrames)
        /\ WrittenLast(fr_sent)
        /\ \A k \in 2..Len(fr_sent):
              Len(fr_read) >= k - 1 /\ fr_read[k - 1] = fr_sent[k - 1]

\* send_da has returned because the echo of its third frame differed
C12_Witness ==
    /\ InSendDa
    /\ pc = "finished"
    /\ Len(fr_sent) = 3
    /\ Len(fr_read) = 3
    /\ fr_read[3] # fr_sent[3]
    /\ fr_read[2] = fr_sent[2]

(***************************************************************************)
(* qualify_host                                                            *)
(***************************************************************************)
QualifyMismatch == qh_result \in {"echo differs", "frame differs"}

\* C13: when qualify_host is not skipped, an echo of E3 or of 00000100 that
\* differs is a fatal abort: the call does not return normally and no later
\* step such as send_da runs.
C13_QualifyMismatchIsFatal ==
    QualifyMismatch =>
        /\ exc # "none"
        /\ ~InSendDa
        /\ sd_result = "pending"

(***************************************************************************)
(* The session                                                             *)
(***************************************************************************)
\* some step of the session has read a frame that differs from the one it
\* expected: the handshake reply, the echo in read_resp, an echo or the
\* status in send_auth_file, an echo in qualify_host, an echo in send_da
MismatchSeen ==
    \/ hs_result = "Failed"
    \/ pc = "rr_ret" /\ rr_ret = NoneVal /\ rr_echo # <<rr_cmd>>
    \/ exc = "TypeError" /\ sd_result = "pending"
    \/ sa_result \in {"Send Auth File failed", "Bad command", "Failed to send auth file"}
    \/ QualifyMismatch
    \/ sd_result \in {"echo differs", "frame differs"}

Written == {tx[i] : i \in 1..Len(tx)}

\* the handshake succeeded, the chip was identified, the DA header parsed
ReadyForTransfer ==
    /\ hs_result \in {"Established", "AlreadyDone"}
    /\ gc_returned # <<>>
    /\ da_i = ToInt(da_count)
    /\ da_count # <<>> \/ image # NoImage

\* C15: a session runs handshake, chip identification, DA header parsing
\* and DA transfer in this order: D7 is written only after the first three
\* have completed, and a session in which they have completed starts the
\* transfer, so that it has written D7 by the time __main__ ends.
C15_SessionStartsTransfer ==
    /\ CmdSendDa \in Written => ReadyForTransfer
    /\ pc = "done" /\ ReadyForTransfer => CmdSendDa \in Written

\* a failure that the code treats as fatal: the handshake reply is neither
\* the magic nor the echo, or send_auth_file read a wrong echo or status
FatalFailure ==
    \/ hs_result = "Failed"
    \/ sa_result \in {"Send Auth File failed", "Bad command", "Failed to send auth file"}

C17_SkipSlaTouchesNothing ==
    [][pc = "qh_enter" /\ skip_sla =>
          \/ pc' = "qh_enter"
          \/ /\ pc' = "sd_cmd"
             /\ qh_result' = "skipped"
             /\ UNCHANGED <<tx, rx, dev, rd_need, rd_buf>>]_vars

\* qualify_host was skipped and main is about to call send_da
C17_Witness ==
    /\ skip_sla
    /\ qh_result = "skipped"
    /\ pc = "sd_cmd"
    /\ sa_result = "Auth file send success"

(***************************************************************************)
(* send_auth_file                                                          *)
(***************************************************************************)
\* the frames in fr_sent are those of a running or ended send_auth_file
InSendAuth == fr_sent # <<>> /\ fr_sent[1] = <<CmdSendAuth>>

ProcessExited == exc = "SystemExit" /\ pc = "exited"

\* C18: send_auth_file writes E2, then 000008d0, then the auth file and
\* nothing else; the file only after the echo of E2 and the echo of
\* 000008d0 were both read back equal; when either echo differs no byte of
\* the file is written and the session is aborted; after the file, success
\* is reported only if the last two bytes read are 0000, and the session is
\* aborted otherwise.
C18_AuthFileAfterBothEchoes ==
    InSendAuth =>
        /\ Len(fr_sent) <= 3
        /\ Len(fr_sent) >= 2 => fr_sent[2] = AuthLenFrame
        /\ Len(fr_sent) = 3 => fr_sent[3] \in AuthFiles
        /\ WrittenLast(fr_sent)
        /\ Len(fr_sent) = 3 =>
              /\ Len(fr_read) >= 2
              /\ fr_read[1] = <<CmdSendAuth>>
              /\ fr_read[2] = AuthLenFrame
        /\ Len(fr_read) >= 1 /\ fr_read[1] # <<CmdSendAuth>> =>
              Len(fr_sent) = 1 /\ ProcessExited
        /\ Len(fr_read) >= 2 /\ fr_read[2] # AuthLenFrame =>
              Len(fr_sent) = 2 /\ ProcessExited
        /\ sa_result = "Auth file send success" =>
              Len(fr_sent) = 3 /\ Len(fr_read) = 5 /\ fr_read[5] = AuthStatusOk
        /\ Len(fr_read) = 5 /\ fr_read[5] # AuthStatusOk =>
              sa_result = "Failed to send auth file" /\ ProcessExited

\* the auth file was written after both echoes and accepted with 0000
C18_Witness ==
    /\ InSendAuth
    /\ Len(fr_sent) = 3
    /\ Len(fr_sent[3]) = MaxAuthLen
    /\ sa_result = "Auth file send success"
    /\ exc = "none"

(***************************************************************************)
(* try_handshake: termination                                              *)
(***************************************************************************)
\* every byte written so far was answered with at least one byte
EveryWriteAnswered == \A k \in 1..(Len(tx) - 1): DeviceReply(device, k) # <<>>

\* C19: try_handshake writes a bounded number of bytes and then ends with an
\* outcome, whatever the device sends, as long as the device answers every
\* byte, a device that answers A0 with "READY" every time included: no run
\* is still in the handshake, free to start over (retry), after it has
\* written more than MaxGreets bytes.
C19_HandshakeWritesBounded ==
    InHandshake /\ retry /\ EveryWriteAnswered => Len(tx) <= MaxGreets

(***************************************************************************)
(* get_chip_id: the echo of FC                                             *)
(***************************************************************************)
\* how many bytes the device has queued in answer to the first k bytes written
Queued(k) ==
    Len(AllDevices[device].greet)
    + Len(Flatten([j \in 1..k |-> DeviceReply(device, j)]))

\* how many bytes the host has taken from its input buffer
ConsumedCount == Queued(Len(tx)) - Len(dev) - Len(rx)

\* read_resp(s, 'fc') has just read the byte it compares with FC
EchoOfFcJustRead ==
    /\ rr_call = 2
    /\ pc = "rr_settle" \/ (pc = "rr_ret" /\ rr_ret = NoneVal)

\* C20: the byte that read_resp compares with FC is a byte the device sent
\* after FC was written, never a byte of its answer to FD, whatever the
\* interleaving of the device's emissions and the host's polls.
C20_EchoSentAfterCommand ==
    EchoOfFcJustRead => ConsumedCount > Queued(Len(tx) - 1)

=============================================================================
